---- MODULE Spec2Model ----
(***************************************************************************)
(* PropertyChain (src/app.py): a proof-of-work hash chain of ownership     *)
(* events, the property / account registries, and the operations that tie  *)
(* a registry mutation to the block recording it.                          *)
(*                                                                         *)
(* Python lists are 0-based, TLA+ sequences 1-based: the block with        *)
(* index i is chain[i + 1].                                                *)
(***************************************************************************)
EXTENDS Integers, Sequences, FiniteSets, TLC

VARIABLES
    chain,          \* blockchain.chain: the in-memory list of Block objects
    chain_file,     \* contents of data_demo/chain.json
    properties,     \* the in-memory properties dict
    props_file,     \* contents of data_demo/properties.json
    accounts,       \* the in-memory accounts dict
    accounts_file,  \* contents of data_demo/accounts.json
    now,            \* the wall clock read by now_ts(), in seconds
    call,           \* the operation the last step ran, with its arguments
    result,         \* what that operation returned / reported
    chain_b,        \* the chain of a second Blockchain object (another session)
    writers,        \* the locals of each add_block call that is under way
    appended,       \* the blocks add_block calls have saved and returned
    serial          \* every add_block call so far ran alone, on the first object

\* what two concurrent add_block calls add to the state
race_vars == <<chain_b, writers, appended, serial>>

vars == <<chain, chain_file, properties, props_file, accounts, accounts_file,
          now, call, result, chain_b, writers, appended, serial>>

---------------------------------------------------------------------------
(* Bounds of the model *)

\* longest chain explored (genesis included)
MaxChain == 4
\* longest chain two overlapping add_block calls build
MaxRaced == 3
\* longest chain found in a chain store written by something else
MaxStored == 3
\* size of the digest alphabet (16 hexadecimal characters in sha256().hexdigest())
HexBase == 4
\* number of characters of a digest (64 in sha256().hexdigest())
DigestLen == 3

\* Blockchain(difficulty=2)
Difficulty == 2

\* the seconds now_ts() can return
Timestamps == {0, 1}

\* Python's None
None == "None"

\* the demo accounts seeded by load_accounts
DemoAccounts ==
    [u \in {"alice", "bob", "carlos"} |->
        [id |-> u, name |-> CASE u = "alice" -> "Alice Demo"
                              [] u = "bob" -> "Bob Demo"
                              [] OTHER -> "Carlos Demo"]]

\* ids and names typed into the "Add New User" inputs
NewUserIds == {"alice", "dave"}
NewUserNames == {"Dave"}

\* values uuid.uuid4() can return
PropIds == {"p1", "p2"}

\* the threads that can be inside add_block at the same time
Writers == {1, 2}

\* a thread that is not inside add_block
Idle == [pc |-> "idle", obj |-> None, block |-> None]

\* the form's default title and description
Titles == {"Cozy Apartment"}
Descriptions == {"2BHK with balcony"}

---------------------------------------------------------------------------
(* hash_object: json.dumps(obj, sort_keys=True) followed by sha256 *)

\* every string that can occur in a serialised block, in a fixed order
Atoms == <<"genesis", "Genesis Block", "create_property", "transfer", "rent",
           "alice", "bob", "carlos", "dave", "p1", "p2", None>>

\* the bytes of a string, as one number
Code(a) == CHOOSE i \in 1..Len(Atoms) : Atoms[i] = a

\* json.dumps of one transaction record: its values in sorted-key order
json_dumps_tx(tx) ==
    CASE tx.type = "genesis" ->
            <<Code(tx.msg), Code(tx.type)>>
      [] tx.type = "create_property" ->
            <<Code(tx.owner), Code(tx.property_id), tx.timestamp, Code(tx.type)>>
      [] tx.type = "transfer" ->
            <<Code(tx.from), Code(tx.property_id), tx.timestamp, Code(tx.to),
              Code(tx.type)>>
      [] tx.type = "rent" ->
            <<Code(tx.owner), Code(tx.property_id), Code(tx.renter),
              tx.timestamp, Code(tx.type)>>

RECURSIVE json_dumps_txs(_)
json_dumps_txs(txs) ==
    IF txs = <<>> THEN <<>>
    ELSE json_dumps_tx(Head(txs)) \o json_dumps_txs(Tail(txs))

\* json.dumps(d, sort_keys=True) of a block dict: keys in the order
\* index, nonce, previous_hash, timestamp, transactions
json_dumps(d) ==
    <<d.index, d.nonce, d.previous_hash, d.timestamp>>
        \o json_dumps_txs(d.transactions)

RECURSIVE Pow(_, _)
Pow(b, e) == IF e = 0 THEN 1 ELSE b * Pow(b, e - 1)

\* number of distinct digests
Modulus == Pow(HexBase, DigestLen)

\* the weight of the i-th serialised value in the digest.  The nonce is the
\* second value; its weight makes the leading Difficulty characters run
\* through all their values as the nonce counts up, so that the search of
\* proof_of_work ends within HexBase^Difficulty steps for every block.
Weight(i) ==
    IF i = 2 THEN Pow(HexBase, DigestLen - Difficulty) ELSE Pow(7, i) % Modulus

\* sha256(s).hexdigest(): a deterministic digest of DigestLen characters over
\* an alphabet of HexBase characters, read as a number (leading zero
\* characters are leading zero digits).  Every serialised value changes it.
RECURSIVE sha256_hexdigest(_, _)
sha256_hexdigest(s, i) ==
    IF i > Len(s) THEN 0
    ELSE (Weight(i) * (s[i] + 1) + sha256_hexdigest(s, i + 1)) % Modulus

hash_object(obj) == sha256_hexdigest(json_dumps(obj), 1)

\* h.startswith("0" * n)
startswith_zeros(h, n) == h < Pow(HexBase, DigestLen - n)

\* "0" * 64
ZeroHash == 0

---------------------------------------------------------------------------
(* class Block *)

Block(index, previous_hash, timestamp, transactions, nonce) ==
    [index |-> index, previous_hash |-> previous_hash, timestamp |-> timestamp,
     transactions |-> transactions, nonce |-> nonce]

to_dict(b) ==
    [index |-> b.index, previous_hash |-> b.previous_hash,
     timestamp |-> b.timestamp, transactions |-> b.transactions,
     nonce |-> b.nonce]

Block_hash(b) == hash_object(to_dict(b))

---------------------------------------------------------------------------
(* class Blockchain *)

create_genesis(ts) ==
    <<Block(0, ZeroHash, ts, <<[type |-> "genesis", msg |-> "Genesis Block"]>>, 0)>>

last_block(ch) == ch[Len(ch)]

\* proof_of_work without its search: the candidate is returned as built
proof_of_work_no_search(block) == block

\* a search that never tests the candidate's own nonce
proof_of_work_at_skips_first(block, difficulty) ==
    LET accepts(n) ==
            startswith_zeros(Block_hash([block EXCEPT !.nonce = n]), difficulty)
    IN  [block EXCEPT !.nonce =
            CHOOSE n \in (block.nonce + 1)..(block.nonce + 1 + Pow(HexBase, Difficulty)) :
                /\ accepts(n)
                /\ \A k \in (block.nonce + 1)..(n - 1) : ~accepts(k)]

\* the loop of proof_of_work on a Blockchain whose difficulty is `difficulty`:
\* test the block as it is, else add 1 to its nonce and test again
RECURSIVE proof_of_work_at(_, _)
proof_of_work_at(block, difficulty) ==
    IF startswith_zeros(Block_hash(block), difficulty)
    THEN block
    ELSE proof_of_work_at([block EXCEPT !.nonce = @ + 1], difficulty)

\* proof_of_work of the application's Blockchain(difficulty=2)
proof_of_work(block) == proof_of_work_at(block, Difficulty)

\* is_chain_valid without the previous_hash comparison
is_chain_valid_no_link(ch) ==
    \A i \in 1..(Len(ch) - 1) :
        startswith_zeros(Block_hash(ch[i + 1]), Difficulty)

\* is_chain_valid holding the first block to the proof-of-work prefix as well
is_chain_valid_checks_genesis(ch) ==
    \A i \in 1..Len(ch) :
        /\ startswith_zeros(Block_hash(ch[i]), Difficulty)
        /\ i > 1 => ch[i].previous_hash = Block_hash(ch[i - 1])

\* the loop of is_chain_valid from Python index i on: the first failing test
\* returns False, running off the end returns True
RECURSIVE is_chain_valid_from(_, _)
is_chain_valid_from(ch, i) ==
    IF i >= Len(ch)
    THEN TRUE
    ELSE LET curr == ch[i + 1]
             prev == ch[i]
         IN  IF curr.previous_hash # Block_hash(prev)
             THEN FALSE
             ELSE IF ~startswith_zeros(Block_hash(curr), Difficulty)
                  THEN FALSE
                  ELSE is_chain_valid_from(ch, i + 1)

\* for i in range(1, len(self.chain))
is_chain_valid(ch) == is_chain_valid_from(ch, 1)

to_json(ch) == [i \in 1..Len(ch) |-> to_dict(ch[i])]

load(raw) ==
    [i \in 1..Len(raw) |->
        Block(raw[i].index, raw[i].previous_hash, raw[i].timestamp,
              raw[i].transactions, raw[i].nonce)]

\* Blockchain.save: the chain store is overwritten with the whole chain
save(st) == [st EXCEPT !.chain_file = to_json(st.chain)]

\* add_block linking the new block to the first block instead of the last
add_block_first_link(st, transactions, ts) ==
    LET index == Len(st.chain)
        previous_hash == Block_hash(st.chain[1])
        block == Block(index, previous_hash, ts, transactions, 0)
        mined == proof_of_work(block)
    IN  save([st EXCEPT !.chain = Append(st.chain, mined)])

\* add_block numbering the new block from the length after the append
add_block_index_after(st, transactions, ts) ==
    LET index == Len(st.chain) + 1
        previous_hash == Block_hash(last_block(st.chain))
        block == Block(index, previous_hash, ts, transactions, 0)
        mined == proof_of_work(block)
    IN  save([st EXCEPT !.chain = Append(st.chain, mined)])

\* the world after add_block(transactions) when now_ts() returns ts;
\* the block it returns is the last one of the chain
add_block(st, transactions, ts) ==
    LET index == Len(st.chain)
        previous_hash == Block_hash(last_block(st.chain))
        block == Block(index, previous_hash, ts, transactions, 0)
        mined == proof_of_work(block)
    IN  save([st EXCEPT !.chain = Append(st.chain, mined)])

---------------------------------------------------------------------------
(* Accounts & Properties *)

save_accounts(st) == [st EXCEPT !.accounts_file = st.accounts]

save_properties(st) == [st EXCEPT !.props_file = st.properties]

\* props[pid] = prop: the dict with key pid set
SetItem(d, k, v) == [x \in DOMAIN d \cup {k} |-> IF x = k THEN v ELSE d[x]]

\* create_property with uuid4() = pid and its two now_ts() calls = t1, t2
create_property(st, pid, owner_id, title, description, t1, t2) ==
    LET prop == [id |-> pid, title |-> title, description |-> description,
                 owner |-> owner_id, created_at |-> t1, rented_to |-> None,
                 history |-> <<[type |-> "created", owner |-> owner_id,
                                timestamp |-> t2]>>]
    IN  save_properties([st EXCEPT !.properties = SetItem(@, pid, prop)])

\* what an operation hands back: (ok, message) or (ok, block), and the world
Failure(st, msg) == [ok |-> FALSE, msg |-> msg, index |-> -1, st |-> st]
Success(st) ==
    [ok |-> TRUE, msg |-> "", index |-> last_block(st.chain).index, st |-> st]

\* transfer_property's two early returns: the message, or "" to go on
transfer_precheck_any_owner(st, property_id, new_owner_id) ==
    IF property_id \notin DOMAIN st.properties THEN "Property not found" ELSE ""

transfer_precheck(st, property_id, new_owner_id) ==
    IF property_id \notin DOMAIN st.properties
    THEN "Property not found"
    ELSE IF new_owner_id = st.properties[property_id].owner
         THEN "Cannot transfer to same owner"
         ELSE ""

\* the transaction record transfer_property builds
transfer_tx(st, property_id, new_owner_id, t1) ==
    [type |-> "transfer", property_id |-> property_id,
     from |-> st.properties[property_id].owner, to |-> new_owner_id,
     timestamp |-> t1]

\* the property record once transfer_property has changed it
transfer_apply_keeps_renter(prop, new_owner_id, t3, block_index) ==
    [prop EXCEPT !.owner = new_owner_id,
                 !.history = Append(@, [type |-> "transfer", from |-> prop.owner,
                                        to |-> new_owner_id, timestamp |-> t3,
                                        block_index |-> block_index])]

\* transfer_property starting the history over with the transfer entry
transfer_apply_resets_history(prop, new_owner_id, t3, block_index) ==
    [prop EXCEPT !.owner = new_owner_id,
                 !.rented_to = None,
                 !.history = <<[type |-> "transfer", from |-> prop.owner,
                                to |-> new_owner_id, timestamp |-> t3,
                                block_index |-> block_index]>>]

transfer_apply(prop, new_owner_id, t3, block_index) ==
    [prop EXCEPT !.owner = new_owner_id,
                 !.rented_to = None,
                 !.history = Append(@, [type |-> "transfer", from |-> prop.owner,
                                        to |-> new_owner_id, timestamp |-> t3,
                                        block_index |-> block_index])]

\* transfer_property with its checks made after the block is mined
transfer_property_late_check(st, property_id, new_owner_id, t1, t2, t3) ==
    IF property_id \notin DOMAIN st.properties
    THEN Failure(st, "Property not found")
    ELSE
    LET mined == add_block(st, <<transfer_tx(st, property_id, new_owner_id, t1)>>, t2)
        msg == transfer_precheck(st, property_id, new_owner_id)
        prop2 == transfer_apply(st.properties[property_id], new_owner_id, t3,
                                last_block(mined.chain).index)
    IN  IF msg # ""
        THEN Failure(IF Len(st.chain) < MaxChain THEN mined ELSE st, msg)
        ELSE Success(save_properties(
                [mined EXCEPT !.properties = SetItem(@, property_id, prop2)]))

\* transfer_property; its now_ts() calls return t1 (tx), t2 (block), t3 (history)
transfer_property(st, property_id, new_owner_id, t1, t2, t3) ==
    LET msg == transfer_precheck(st, property_id, new_owner_id)
        mined == add_block(st, <<transfer_tx(st, property_id, new_owner_id, t1)>>, t2)
        block == last_block(mined.chain)
        prop2 == transfer_apply(st.properties[property_id], new_owner_id, t3,
                                block.index)
    IN  IF msg # ""
        THEN Failure(st, msg)
        ELSE Success(save_properties(
                [mined EXCEPT !.properties = SetItem(@, property_id, prop2)]))

\* rent_property's two early returns: the message, or "" to go on
rent_precheck_any_renter(st, property_id, renter_id) ==
    IF property_id \notin DOMAIN st.properties THEN "Property not found" ELSE ""

\* rent_property refusing a property that is rented already
rent_precheck_rejects_rented(st, property_id, renter_id) ==
    IF property_id \notin DOMAIN st.properties
    THEN "Property not found"
    ELSE IF renter_id = st.properties[property_id].owner
         THEN "Owner cannot rent to themselves"
         ELSE IF st.properties[property_id].rented_to # None
              THEN "Property is already rented"
              ELSE ""

rent_precheck(st, property_id, renter_id) ==
    IF property_id \notin DOMAIN st.properties
    THEN "Property not found"
    ELSE IF renter_id = st.properties[property_id].owner
         THEN "Owner cannot rent to themselves"
         ELSE ""

\* the transaction record rent_property builds
rent_tx(st, property_id, renter_id, t1) ==
    [type |-> "rent", property_id |-> property_id,
     owner |-> st.properties[property_id].owner, renter |-> renter_id,
     timestamp |-> t1]

\* the property record once rent_property has changed it
rent_apply_sets_owner(prop, renter_id, t3, block_index) ==
    [prop EXCEPT !.owner = renter_id,
                 !.rented_to = renter_id,
                 !.history = Append(@, [type |-> "rent", owner |-> prop.owner,
                                        renter |-> renter_id, timestamp |-> t3,
                                        block_index |-> block_index])]

\* rent_property recording the index of the block before the mined one
rent_apply_previous_index(prop, renter_id, t3, block_index) ==
    [prop EXCEPT !.rented_to = renter_id,
                 !.history = Append(@, [type |-> "rent", owner |-> prop.owner,
                                        renter |-> renter_id, timestamp |-> t3,
                                        block_index |-> block_index - 1])]

rent_apply(prop, renter_id, t3, block_index) ==
    [prop EXCEPT !.rented_to = renter_id,
                 !.history = Append(@, [type |-> "rent", owner |-> prop.owner,
                                        renter |-> renter_id, timestamp |-> t3,
                                        block_index |-> block_index])]

\* rent_property; now_ts() calls as in transfer_property
rent_property(st, property_id, renter_id, t1, t2, t3) ==
    LET msg == rent_precheck(st, property_id, renter_id)
        mined == add_block(st, <<rent_tx(st, property_id, renter_id, t1)>>, t2)
        block == last_block(mined.chain)
        prop2 == rent_apply(st.properties[property_id], renter_id, t3,
                            block.index)
    IN  IF msg # ""
        THEN Failure(st, msg)
        ELSE Success(save_properties(
                [mined EXCEPT !.properties = SetItem(@, property_id, prop2)]))

---------------------------------------------------------------------------
(* Streamlit UI: the handlers of one script run *)

\* "Create User" without the check of the id
create_user_overwrites(st, new_id, new_name) ==
    [ok |-> TRUE, msg |-> "", index |-> -1,
     st |-> save_accounts([st EXCEPT !.accounts =
                SetItem(@, new_id, [id |-> new_id, name |-> new_name])])]

\* "Create User"
create_user(st, new_id, new_name) ==
    IF new_id \in DOMAIN st.accounts
    THEN Failure(st, "User ID already exists.")
    ELSE [ok |-> TRUE, msg |-> "", index |-> -1,
          st |-> save_accounts([st EXCEPT !.accounts =
                     SetItem(@, new_id, [id |-> new_id, name |-> new_name])])]

\* the "create_property" form: the record is created and saved, then the
\* create_property transaction is mined
create_property_form(st, user_id, pid, title, description, t1, t2, t3, t4) ==
    LET created == create_property(st, pid, user_id, title, description, t1, t2)
        tx == [type |-> "create_property", property_id |-> pid,
               owner |-> user_id, timestamp |-> t3]
    IN  Success(add_block(created, <<tx>>, t4))

\* "Transfer Ownership" without the check of the active user
transfer_ownership_no_auth(st, user_id, selected_pid, new_owner, t1, t2, t3) ==
    transfer_property(st, selected_pid, new_owner, t1, t2, t3)

\* "Transfer Ownership"
transfer_ownership(st, user_id, selected_pid, new_owner, t1, t2, t3) ==
    IF user_id # st.properties[selected_pid].owner
    THEN Failure(st, "Only the owner can transfer ownership.")
    ELSE transfer_property(st, selected_pid, new_owner, t1, t2, t3)

\* "Give on Rent"
give_on_rent(st, user_id, selected_pid, renter, t1, t2, t3) ==
    IF user_id # st.properties[selected_pid].owner
    THEN Failure(st, "Only the owner can rent out this property.")
    ELSE rent_property(st, selected_pid, renter, t1, t2, t3)

---------------------------------------------------------------------------
(* The process dies between the two saves of a handler: what is left *)

\* the next script run: every object is read back from its store
restart(st) ==
    [st EXCEPT !.chain = load(st.chain_file), !.properties = st.props_file,
               !.accounts = st.accounts_file]

\* the "create_property" form stopped after create_property returned
create_property_form_crashed(st, user_id, pid, title, description, t1, t2) ==
    restart(create_property(st, pid, user_id, title, description, t1, t2))

\* transfer_property changing and saving the record before the block is mined
transfer_property_crashed_apply_first(st, property_id, new_owner_id, t1, t2) ==
    restart(save_properties([st EXCEPT !.properties =
        SetItem(@, property_id,
                transfer_apply(st.properties[property_id], new_owner_id, t2,
                               Len(st.chain)))]))

\* transfer_property stopped after add_block returned
transfer_property_crashed(st, property_id, new_owner_id, t1, t2) ==
    restart(add_block(st, <<transfer_tx(st, property_id, new_owner_id, t1)>>, t2))

\* rent_property stopped after add_block returned
rent_property_crashed(st, property_id, renter_id, t1, t2) ==
    restart(add_block(st, <<rent_tx(st, property_id, renter_id, t1)>>, t2))

---------------------------------------------------------------------------
(* The state machine *)

\* the objects the running script holds
Memory ==
    [chain |-> chain, chain_file |-> chain_file,
     properties |-> properties, props_file |-> props_file,
     accounts |-> accounts, accounts_file |-> accounts_file]

\* the top of a script run: Blockchain(difficulty=2) finds the chain store and
\* loads it, load_accounts() and load_properties() read theirs
Rerun ==
    [chain |-> load(chain_file), chain_file |-> chain_file,
     properties |-> props_file, props_file |-> props_file,
     accounts |-> accounts_file, accounts_file |-> accounts_file]

\* no handler has run since the page was last rendered
NoCall == [op |-> "idle", via |-> "idle", actor |-> None, pid |-> None,
           arg |-> None]
NoResult == [ok |-> TRUE, msg |-> "", index |-> -1]

\* first run: no store exists, so the genesis block and the demo accounts are
\* written and the property store is seeded empty
Init ==
    /\ now \in Timestamps
    /\ chain = create_genesis(now)
    /\ chain_file = to_json(chain)
    /\ accounts = DemoAccounts
    /\ accounts_file = DemoAccounts
    /\ properties = << >>
    /\ props_file = << >>
    /\ call = NoCall
    /\ result = NoResult
    /\ chain_b = chain
    /\ writers = [w \in Writers |-> Idle]
    /\ appended = {}
    /\ serial = TRUE

\* the operation c ends with the world out.st and hands back out
Finish(out, c) ==
    /\ chain' = out.st.chain
    /\ chain_file' = out.st.chain_file
    /\ properties' = out.st.properties
    /\ props_file' = out.st.props_file
    /\ accounts' = out.st.accounts
    /\ accounts_file' = out.st.accounts_file
    /\ call' = c
    /\ result' = [ok |-> out.ok, msg |-> out.msg, index |-> out.index]
    /\ UNCHANGED <<now, race_vars>>

\* uuid.uuid4(): an id that was not handed out before
uuid4 == IF "p1" \notin DOMAIN props_file THEN {"p1"} ELSE PropIds \ DOMAIN props_file

CreateUser(new_id, new_name) ==
    /\ call = NoCall
    /\ \E out \in {create_user(Rerun, new_id, new_name)} :
          Finish(out, [op |-> "create_user", via |-> "ui", actor |-> None,
                       pid |-> None, arg |-> new_id])

CreatePropertyForm(user_id, title, description) ==
    /\ call = NoCall
    /\ user_id \in DOMAIN accounts_file
    /\ Len(chain_file) < MaxChain
    /\ \E pid \in uuid4 :
       \E out \in {create_property_form(Rerun, user_id, pid, title,
                                         description, now, now, now, now)} :
          Finish(out, [op |-> "create_property", via |-> "ui",
                       actor |-> user_id, pid |-> pid, arg |-> None])

TransferOwnership(user_id, selected_pid, new_owner) ==
    /\ call = NoCall
    /\ user_id \in DOMAIN accounts_file
    /\ selected_pid \in DOMAIN props_file
    /\ new_owner \in DOMAIN accounts_file \ {props_file[selected_pid].owner}
    /\ \E out \in {transfer_ownership(Rerun, user_id, selected_pid, new_owner,
                                       now, now, now)} :
          /\ out.ok => Len(chain_file) < MaxChain
          /\ Finish(out, [op |-> "transfer", via |-> "ui", actor |-> user_id,
                          pid |-> selected_pid, arg |-> new_owner])

GiveOnRent(user_id, selected_pid, renter) ==
    /\ call = NoCall
    /\ user_id \in DOMAIN accounts_file
    /\ selected_pid \in DOMAIN props_file
    /\ renter \in DOMAIN accounts_file \ {props_file[selected_pid].owner}
    /\ \E out \in {give_on_rent(Rerun, user_id, selected_pid, renter,
                                 now, now, now)} :
          /\ out.ok => Len(chain_file) < MaxChain
          /\ Finish(out, [op |-> "rent", via |-> "ui", actor |-> user_id,
                          pid |-> selected_pid, arg |-> renter])

\* transfer_property called directly on the objects in memory
TransferProperty(property_id, new_owner_id) ==
    /\ call = NoCall
    /\ \E out \in {transfer_property(Memory, property_id, new_owner_id,
                                     now, now, now)} :
          /\ out.ok => Len(chain) < MaxChain
          /\ Finish(out, [op |-> "transfer", via |-> "api", actor |-> None,
                          pid |-> property_id, arg |-> new_owner_id])

\* rent_property called directly on the objects in memory
RentProperty(property_id, renter_id) ==
    /\ call = NoCall
    /\ \E out \in {rent_property(Memory, property_id, renter_id,
                                 now, now, now)} :
          /\ out.ok => Len(chain) < MaxChain
          /\ Finish(out, [op |-> "rent", via |-> "api", actor |-> None,
                          pid |-> property_id, arg |-> renter_id])

\* the caller has taken the result: the next operation can start
Return ==
    /\ call # NoCall
    /\ call' = NoCall
    /\ result' = NoResult
    /\ UNCHANGED <<chain, chain_file, properties, props_file, accounts,
                   accounts_file, now, race_vars>>

\* a second passes between two operations
Tick ==
    /\ call = NoCall
    /\ now + 1 \in Timestamps
    /\ now' = now + 1
    /\ UNCHANGED <<chain, chain_file, properties, props_file, accounts,
                   accounts_file, call, result, race_vars>>

Next ==
    \/ \E u \in DOMAIN accounts, t \in Titles, d \in Descriptions :
          CreatePropertyForm(u, t, d)
    \/ \E u \in DOMAIN accounts, pid \in PropIds, o \in DOMAIN accounts :
          TransferOwnership(u, pid, o)
    \/ \E u \in DOMAIN accounts, pid \in PropIds, r \in DOMAIN accounts :
          GiveOnRent(u, pid, r)
    \/ \E pid \in PropIds, o \in DOMAIN accounts : TransferProperty(pid, o)
    \/ \E pid \in PropIds, r \in DOMAIN accounts : RentProperty(pid, r)
    \/ Return
    \/ Tick

Spec == Init /\ [][Next]_vars

\* the process is killed inside a handler, after its first save
Crashed(st, op, user_id, pid, arg) ==
    /\ chain' = st.chain
    /\ chain_file' = st.chain_file
    /\ properties' = st.properties
    /\ props_file' = st.props_file
    /\ accounts' = st.accounts
    /\ accounts_file' = st.accounts_file
    /\ call' = [op |-> op, via |-> "crash", actor |-> user_id, pid |-> pid,
                arg |-> arg]
    /\ result' = [ok |-> FALSE, msg |-> "killed", index |-> -1]
    /\ UNCHANGED <<now, race_vars>>

CreatePropertyFormCrash(user_id, title, description) ==
    /\ call = NoCall
    /\ Len(chain_file) < MaxChain
    /\ \E pid \in uuid4 :
          Crashed(create_property_form_crashed(Rerun, user_id, pid, title,
                                               description, now, now),
                  "create_property", user_id, pid, None)

TransferOwnershipCrash(selected_pid, new_owner) ==
    /\ call = NoCall
    /\ Len(chain_file) < MaxChain
    /\ selected_pid \in DOMAIN props_file
    /\ new_owner \in DOMAIN accounts_file \ {props_file[selected_pid].owner}
    /\ Crashed(transfer_property_crashed(Rerun, selected_pid, new_owner,
                                         now, now),
               "transfer", props_file[selected_pid].owner, selected_pid,
               new_owner)

GiveOnRentCrash(selected_pid, renter) ==
    /\ call = NoCall
    /\ Len(chain_file) < MaxChain
    /\ selected_pid \in DOMAIN props_file
    /\ renter \in DOMAIN accounts_file \ {props_file[selected_pid].owner}
    /\ Crashed(rent_property_crashed(Rerun, selected_pid, renter, now, now),
               "rent", props_file[selected_pid].owner, selected_pid, renter)

\* a killed process is the end of the run that is examined
NextCrash ==
    \/ call.via # "crash" /\ Next
    \/ \E u \in DOMAIN accounts, t \in Titles, d \in Descriptions :
          CreatePropertyFormCrash(u, t, d)
    \/ \E pid \in PropIds, o \in DOMAIN accounts :
          TransferOwnershipCrash(pid, o)
    \/ \E pid \in PropIds, r \in DOMAIN accounts : GiveOnRentCrash(pid, r)

SpecCrash == Init /\ [][NextCrash]_vars

\* what a block's transactions can be edited to: another timestamp or party
AltTransactions(txs) ==
    LET tx == txs[1]
        alts ==
          CASE tx.type = "genesis" -> {[tx EXCEPT !.msg = "genesis"]}
            [] tx.type = "create_property" ->
                 {[tx EXCEPT !.owner = u] : u \in DOMAIN DemoAccounts}
                   \cup {[tx EXCEPT !.timestamp = t] : t \in Timestamps}
            [] tx.type = "transfer" ->
                 {[tx EXCEPT !.to = u] : u \in DOMAIN DemoAccounts}
                   \cup {[tx EXCEPT !.timestamp = t] : t \in Timestamps}
            [] tx.type = "rent" ->
                 {[tx EXCEPT !.renter = u] : u \in DOMAIN DemoAccounts}
                   \cup {[tx EXCEPT !.timestamp = t] : t \in Timestamps}
    IN  {<<a>> : a \in alts}

\* the nonces and digests an edit can write
AltNonces == {0, 1, Pow(HexBase, Difficulty)}
AltHashes == {ZeroHash, 1}

\* one field of the block at position i of the chain store is edited; the next
\* run loads the store as it is and is_chain_valid() is asked
Tamper(i, field, value) ==
    /\ call = NoCall
    /\ value # chain_file[i][field]
    /\ chain_file' = [chain_file EXCEPT ![i][field] = value]
    /\ chain' = load(chain_file')
    /\ call' = [op |-> "tamper", via |-> "file", actor |-> None, pid |-> None,
                arg |-> field]
    /\ result' = [ok |-> is_chain_valid(chain'), msg |-> "", index |-> i - 1]
    /\ UNCHANGED <<properties, props_file, accounts, accounts_file, now,
                   race_vars>>

\* the tampered chain is examined, not built upon
NextTamper ==
    \/ call.op # "tamper" /\ Next
    \/ \E i \in 1..Len(chain_file) :
          \E v \in AltTransactions(chain_file[i].transactions) :
             Tamper(i, "transactions", v)
    \/ \E i \in 1..Len(chain_file), v \in AltNonces : Tamper(i, "nonce", v)
    \/ \E i \in 1..Len(chain_file), v \in AltHashes :
          Tamper(i, "previous_hash", v)

SpecTamper == Init /\ [][NextTamper]_vars

---------------------------------------------------------------------------
(* A chain store that holds an empty array *)

\* the exception Python raises for self.chain[-1] on an empty list
IndexError == "IndexError"

\* last_block() raises instead of returning
last_block_raises(ch) == Len(ch) = 0

\* an exception leaves the call: nothing is handed back but the exception
Raised(st, exc) == [ok |-> FALSE, msg |-> exc, index |-> -1, st |-> st]

\* add_block storing a first block when the chain is empty
add_block_try_seeds(st, transactions, ts) ==
    IF last_block_raises(st.chain)
    THEN Success(save([st EXCEPT !.chain =
            <<proof_of_work(Block(0, ZeroHash, ts, transactions, 0))>>]))
    ELSE Success(add_block(st, transactions, ts))

\* add_block as a call that can raise: index is computed, then last_block()
\* raises before the block is built, appended or saved
add_block_try(st, transactions, ts) ==
    IF last_block_raises(st.chain)
    THEN Raised(st, IndexError)
    ELSE Success(add_block(st, transactions, ts))

\* the transactions handed to add_block when it is called directly
RawTransactions ==
    {<<[type |-> "create_property", property_id |-> "p1", owner |-> "alice",
        timestamp |-> now]>>}

\* the chain store is replaced by an empty array; the next run finds the file,
\* loads it as it is and creates no genesis block
EmptyChainStore ==
    /\ call = NoCall
    /\ chain_file # << >>
    /\ chain_file' = << >>
    /\ chain' = load(chain_file')
    /\ call' = [op |-> "empty_store", via |-> "file", actor |-> None,
                pid |-> None, arg |-> None]
    /\ result' = NoResult
    /\ UNCHANGED <<properties, props_file, accounts, accounts_file, now,
                   race_vars>>

\* blockchain.last_block()
LastBlock ==
    /\ call = NoCall
    /\ \E out \in {IF last_block_raises(chain) THEN Raised(Memory, IndexError)
                    ELSE Success(Memory)} :
          Finish(out, [op |-> "last_block", via |-> "api", actor |-> None,
                       pid |-> None, arg |-> None])

\* blockchain.add_block(transactions)
AddBlock(transactions) ==
    /\ call = NoCall
    /\ Len(chain) < MaxChain
    /\ \E out \in {add_block_try(Memory, transactions, now)} :
          Finish(out, [op |-> "add_block", via |-> "api", actor |-> None,
                       pid |-> None, arg |-> None])

\* the handlers run on a chain that has blocks; an empty chain is examined
\* through last_block and add_block
NextEmpty ==
    \/ (chain # << >> \/ call # NoCall) /\ Next
    \/ EmptyChainStore
    \/ LastBlock
    \/ \E txs \in RawTransactions : AddBlock(txs)

SpecEmpty == Init /\ [][NextEmpty]_vars

---------------------------------------------------------------------------
(* A chain store of any content, loaded and validated *)

\* the transactions a stored block can hold
StoredTransactions ==
    {<<[type |-> "genesis", msg |-> "Genesis Block"]>>,
     <<[type |-> "transfer", property_id |-> "p1", from |-> "alice",
        to |-> "bob", timestamp |-> 0]>>}

\* the blocks that can follow the stored blocks raw: linked to the last one or
\* not, mined or not
StoredBlocks(raw) ==
    LET links == IF raw = << >> THEN {ZeroHash, 1}
                 ELSE {ZeroHash, Block_hash(last_block(load(raw)))}
    IN  UNION {LET mined == proof_of_work(Block(Len(raw), ph, 0, txs, 0))
               IN  {to_dict([mined EXCEPT !.nonce = n]) :
                        n \in {0, mined.nonce, mined.nonce + 1}} :
               ph \in links, txs \in StoredTransactions}

\* the arrays of n blocks a chain store can hold
RECURSIVE StoredChains(_)
StoredChains(n) ==
    IF n = 0 THEN {<< >>}
    ELSE UNION {{Append(raw, b) : b \in StoredBlocks(raw)} :
                    raw \in StoredChains(n - 1)}

\* a run that finds a chain store: it is loaded and trusted as it is
InitStored ==
    /\ now \in Timestamps
    /\ chain_file \in UNION {StoredChains(n) : n \in 0..MaxStored}
    /\ chain = load(chain_file)
    /\ accounts = DemoAccounts
    /\ accounts_file = DemoAccounts
    /\ properties = << >>
    /\ props_file = << >>
    /\ call = NoCall
    /\ result = NoResult
    /\ chain_b = chain
    /\ writers = [w \in Writers |-> Idle]
    /\ appended = {}
    /\ serial = TRUE

\* blockchain.is_chain_valid()
IsChainValid ==
    /\ call = NoCall
    /\ call' = [op |-> "is_chain_valid", via |-> "api", actor |-> None,
                pid |-> None, arg |-> None]
    /\ result' = [ok |-> is_chain_valid(chain), msg |-> "", index |-> -1]
    /\ UNCHANGED <<chain, chain_file, properties, props_file, accounts,
                   accounts_file, now, race_vars>>

NextStored == IsChainValid \/ Return

SpecStored == InitStored /\ [][NextStored]_vars

---------------------------------------------------------------------------
(* add_block calls that overlap: two threads on one Blockchain object, or two
   sessions each with the Blockchain object its script run has loaded *)

\* the two Blockchain objects
Objects == {"a", "b"}
Object(o) == IF o = "a" THEN chain ELSE chain_b

\* add_block up to the return of proof_of_work: index and previous_hash are
\* read from the chain as it is now, and the block is mined from them
add_block_read(ch, transactions, ts) ==
    LET index == Len(ch)
        previous_hash == Block_hash(last_block(ch))
    IN  proof_of_work(Block(index, previous_hash, ts, transactions, 0))

\* an append that is skipped when the chain has grown since the read
add_block_append_if_current(ch, block) ==
    IF Len(ch) = block.index THEN Append(ch, block) ELSE ch

\* self.chain.append(mined): on the chain as it is at that moment
add_block_append(ch, block) == Append(ch, block)

\* the transactions each thread hands to add_block
WriterTransactions(w) ==
    <<[type |-> "transfer", property_id |-> "p1", from |-> "alice",
       to |-> IF w = 1 THEN "bob" ELSE "carlos", timestamp |-> now]>>

\* a script run of the session holding object o starts: Blockchain() loads
\* the chain store
Reload(o) ==
    /\ \A w \in Writers : writers[w].obj # o
    /\ Object(o) # load(chain_file)
    /\ IF o = "a"
       THEN chain' = load(chain_file) /\ UNCHANGED chain_b
       ELSE chain_b' = load(chain_file) /\ UNCHANGED chain
    /\ UNCHANGED <<chain_file, properties, props_file, accounts,
                   accounts_file, now, call, result, writers, appended,
                   serial>>

\* thread w enters add_block on object o and mines its block
Begin(w, o) ==
    /\ writers[w].pc = "idle"
    /\ Len(Object(o)) + Cardinality({v \in Writers : writers[v].obj = o})
          < MaxRaced
    /\ writers' = [writers EXCEPT ![w] =
          [pc |-> "mined", obj |-> o,
           block |-> add_block_read(Object(o), WriterTransactions(w), now)]]
    /\ serial' = (serial /\ o = "a" /\ \A v \in Writers : writers[v].pc = "idle")
    /\ UNCHANGED <<chain, chain_b, chain_file, properties, props_file,
                   accounts, accounts_file, now, call, result, appended>>

\* thread w appends its block
AppendMined(w) ==
    /\ writers[w].pc = "mined"
    /\ IF writers[w].obj = "a"
       THEN /\ chain' = add_block_append(chain, writers[w].block)
            /\ UNCHANGED chain_b
       ELSE /\ chain_b' = add_block_append(chain_b, writers[w].block)
            /\ UNCHANGED chain
    /\ writers' = [writers EXCEPT ![w].pc = "appended"]
    /\ UNCHANGED <<chain_file, properties, props_file, accounts,
                   accounts_file, now, call, result, appended, serial>>

\* thread w saves the whole chain of its object and returns its block
SaveAppended(w) ==
    /\ writers[w].pc = "appended"
    /\ chain_file' = to_json(Object(writers[w].obj))
    /\ appended' = appended \cup {writers[w].block}
    /\ writers' = [writers EXCEPT ![w] = Idle]
    /\ UNCHANGED <<chain, chain_b, properties, props_file, accounts,
                   accounts_file, now, call, result, serial>>

NextRace ==
    \/ \E o \in Objects : Reload(o)
    \/ \E w \in Writers, o \in Objects : Begin(w, o)
    \/ \E w \in Writers : AppendMined(w)
    \/ \E w \in Writers : SaveAppended(w)

SpecRace == Init /\ [][NextRace]_vars

---------------------------------------------------------------------------
(* proof_of_work on the candidates add_block builds, at any difficulty *)

\* the transactions of a candidate block
MiningTransactions ==
    {<<[type |-> "create_property", property_id |-> "p1", owner |-> "alice",
        timestamp |-> now]>>,
     <<[type |-> "transfer", property_id |-> "p1", from |-> "alice",
        to |-> "bob", timestamp |-> now]>>,
     <<[type |-> "rent", property_id |-> "p1", owner |-> "bob",
        renter |-> "carlos", timestamp |-> now]>>}

\* blockchain.proof_of_work(block) on the candidate add_block builds for
\* transactions, on a Blockchain constructed with the given difficulty
ProofOfWork(transactions, difficulty) ==
    /\ call = NoCall
    /\ LET block == Block(Len(chain), Block_hash(last_block(chain)), now,
                          transactions, 0)
           mined == proof_of_work_at(block, difficulty)
       IN  /\ call' = [op |-> "proof_of_work", via |-> "api", actor |-> None,
                       pid |-> None,
                       arg |-> [block |-> block, difficulty |-> difficulty]]
           /\ result' = [ok |-> TRUE, msg |-> "", index |-> mined.index,
                         block |-> mined]
    /\ UNCHANGED <<chain, chain_file, properties, props_file, accounts,
                   accounts_file, now, race_vars>>

NextMining ==
    \/ \E txs \in MiningTransactions, d \in 0..Difficulty : ProofOfWork(txs, d)
    \/ \E txs \in MiningTransactions : AddBlock(txs)
    \/ Return
    \/ Tick

SpecMining == Init /\ [][NextMining]_vars

---------------------------------------------------------------------------
(* transfer_property and rent_property with the mining loop taken one
   iteration at a time *)

\* a loop that gives up after its second test
proof_of_work_step_bounded(block, difficulty) ==
    IF startswith_zeros(Block_hash(block), difficulty)
    THEN [pc |-> "mined", block |-> block]
    ELSE IF block.nonce >= 1
         THEN [pc |-> "failed", block |-> block]
         ELSE [pc |-> "mining", block |-> [block EXCEPT !.nonce = @ + 1]]

\* one iteration of the while loop of proof_of_work: return the block, or add
\* 1 to its nonce and go round again; there is no other way out
proof_of_work_step(block, difficulty) ==
    IF startswith_zeros(Block_hash(block), difficulty)
    THEN [pc |-> "mined", block |-> block]
    ELSE [pc |-> "mining", block |-> [block EXCEPT !.nonce = @ + 1]]

\* the thread running the handler
Handler == 1

\* transfer_property / rent_property passes its checks, builds tx and enters
\* add_block: the candidate block is built and the loop is about to start
StartMining(op, property_id, other_id) ==
    /\ call = NoCall
    /\ writers[Handler].pc = "idle"
    /\ Len(chain) < MaxChain
    /\ IF op = "transfer"
       THEN transfer_precheck(Memory, property_id, other_id) = ""
       ELSE rent_precheck(Memory, property_id, other_id) = ""
    /\ LET tx == IF op = "transfer"
                 THEN transfer_tx(Memory, property_id, other_id, now)
                 ELSE rent_tx(Memory, property_id, other_id, now)
       IN  writers' = [writers EXCEPT ![Handler] =
              [pc |-> "mining", obj |-> "a",
               block |-> Block(Len(chain), Block_hash(last_block(chain)), now,
                               <<tx>>, 0)]]
    /\ call' = [op |-> op, via |-> "steps", actor |-> None,
                pid |-> property_id, arg |-> other_id]
    /\ result' = [ok |-> FALSE, msg |-> "mining", index |-> -1]
    /\ UNCHANGED <<chain, chain_b, chain_file, properties, props_file,
                   accounts, accounts_file, now, appended, serial>>

\* one iteration of the mining loop
MineStep ==
    /\ writers[Handler].pc = "mining"
    /\ LET step == proof_of_work_step(writers[Handler].block, Difficulty)
       IN  writers' = [writers EXCEPT ![Handler].pc = step.pc,
                                      ![Handler].block = step.block]
    /\ UNCHANGED <<chain, chain_b, chain_file, properties, props_file,
                   accounts, accounts_file, now, call, result, appended,
                   serial>>

\* proof_of_work has returned: add_block appends and saves, and the operation
\* changes the record, saves the registry and returns (True, block)
CompleteMined ==
    /\ writers[Handler].pc = "mined"
    /\ LET block == writers[Handler].block
           prop == properties[call.pid]
           prop2 == IF call.op = "transfer"
                    THEN transfer_apply(prop, call.arg, now, block.index)
                    ELSE rent_apply(prop, call.arg, now, block.index)
           mined == save([Memory EXCEPT
                            !.chain = add_block_append(chain, block)])
           out == Success(save_properties(
                    [mined EXCEPT !.properties = SetItem(@, call.pid, prop2)]))
       IN  /\ chain' = out.st.chain
           /\ chain_file' = out.st.chain_file
           /\ properties' = out.st.properties
           /\ props_file' = out.st.props_file
           /\ result' = [ok |-> out.ok, msg |-> out.msg, index |-> out.index]
    /\ writers' = [writers EXCEPT ![Handler] = Idle]
    /\ appended' = appended \cup {writers[Handler].block}
    /\ UNCHANGED <<chain_b, accounts, accounts_file, now, call, serial>>

NextSteps ==
    \/ \E u \in DOMAIN accounts, t \in Titles, d \in Descriptions :
          CreatePropertyForm(u, t, d)
    \/ \E op \in {"transfer", "rent"}, pid \in PropIds, o \in DOMAIN accounts :
          StartMining(op, pid, o)
    \/ MineStep
    \/ CompleteMined
    \/ writers[Handler].pc = "idle" /\ Return

\* the handler's thread keeps running: nothing the loop waits for
SpecSteps ==
    Init /\ [][NextSteps]_vars /\ WF_vars(MineStep) /\ WF_vars(CompleteMined)

---------------------------------------------------------------------------
(* The operations with room for one block more than the handlers are given,
   so that two properties can each have a recorded transfer or rent *)

\* transfer_property called directly when the chain has MaxChain blocks
TransferPropertyBeyond(property_id, new_owner_id) ==
    /\ call = NoCall
    /\ Len(chain) = MaxChain
    /\ \E out \in {transfer_property(Memory, property_id, new_owner_id,
                                     now, now, now)} :
          /\ out.ok
          /\ Finish(out, [op |-> "transfer", via |-> "api", actor |-> None,
                          pid |-> property_id, arg |-> new_owner_id])

\* rent_property called directly when the chain has MaxChain blocks
RentPropertyBeyond(property_id, renter_id) ==
    /\ call = NoCall
    /\ Len(chain) = MaxChain
    /\ \E out \in {rent_property(Memory, property_id, renter_id,
                                 now, now, now)} :
          /\ out.ok
          /\ Finish(out, [op |-> "rent", via |-> "api", actor |-> None,
                          pid |-> property_id, arg |-> renter_id])

\* the chain with one block more is examined, not built upon
NextLinked ==
    \/ Len(chain) <= MaxChain /\ Next
    \/ \E pid \in PropIds, o \in DOMAIN accounts :
          TransferPropertyBeyond(pid, o)
    \/ \E pid \in PropIds, r \in DOMAIN accounts : RentPropertyBeyond(pid, r)

SpecLinked == Init /\ [][NextLinked]_vars

---------------------------------------------------------------------------
(* Blocks and property records named by the claims *)

\* the block has the proof-of-work prefix
MeetsDifficulty(b) == startswith_zeros(Block_hash(b), Difficulty)

\* the one transaction of the block a step has appended
NewTx == last_block(chain').transactions[1]

World == <<chain, chain_file, properties, props_file, accounts, accounts_file>>

\* the block at index k of the chain store records history entry e of property p
Records(k, p, e) ==
    /\ k + 1 \in 1..Len(chain_file)
    /\ chain_file[k + 1].index = k
    /\ LET tx == chain_file[k + 1].transactions[1]
       IN  /\ tx.type = e.type
           /\ tx.property_id = p
           /\ e.type = "transfer" => tx.from = e.from /\ tx.to = e.to
           /\ e.type = "rent" => tx.owner = e.owner /\ tx.renter = e.renter

---------------------------------------------------------------------------
(* C1 *)

\* C1: after any sequence of add_block calls on a freshly constructed ledger,
\* is_chain_valid() returns true.
C1_ChainValid == is_chain_valid(chain)

C1_Witness == Len(chain) = 4 /\ is_chain_valid(chain)

(* C2 *)

\* C2 as stated: every block of the chain, the genesis block included, has a
\* digest with at least Difficulty leading zero characters.
C2_EveryBlockMeetsDifficulty ==
    \A i \in 1..Len(chain) : MeetsDifficulty(chain[i])

\* C2 amended: every block appended by add_block (index >= 1) has a digest with
\* at least Difficulty leading zero characters; the genesis block is stored
\* with nonce 0, unmined.
C2_AppendedBlocksMeetDifficulty ==
    /\ \A i \in 2..Len(chain) : MeetsDifficulty(chain[i])
    /\ chain[1].nonce = 0

C2_Witness ==
    /\ Len(chain) >= 3
    /\ ~MeetsDifficulty(chain[1])
    /\ \E i \in 2..Len(chain) : chain[i].nonce > 0 /\ MeetsDifficulty(chain[i])

(* C3 *)

\* C3 as stated: once a block's transactions, nonce or previous_hash has been
\* changed, is_chain_valid() returns false.
C3_AnyTamperDetected == call.op = "tamper" => ~is_chain_valid(chain)

\* C3 amended: after such a change to the block at position i, is_chain_valid()
\* returns false exactly when the block is not the genesis block and its
\* previous_hash was changed or its new digest lacks the difficulty prefix, or
\* the block has a successor and its digest changed.
C3_TamperDetectedWhen ==
    [][call'.op = "tamper" =>
        LET i == result'.index + 1
            old == chain[i]
            new == chain'[i]
        IN  ~is_chain_valid(chain') <=>
              \/ i >= 2 /\ new.previous_hash # old.previous_hash
              \/ i >= 2 /\ ~MeetsDifficulty(new)
              \/ i < Len(chain) /\ Block_hash(new) # Block_hash(old)]_vars

C3_Witness ==
    /\ call.op = "tamper"
    /\ call.arg = "transactions"
    /\ result.index + 1 < Len(chain)
    /\ ~is_chain_valid(chain)

(* C4 *)

\* C4 as stated, for create: the property store holds a property only if the
\* chain store holds the create_property block recording it.
C4_CreateRecordedFirst ==
    \A p \in DOMAIN props_file :
        \E i \in 1..Len(chain_file) :
            /\ chain_file[i].transactions[1].type = "create_property"
            /\ chain_file[i].transactions[1].property_id = p

\* C4 amended: at every point, a crash included, the property store holds a
\* transfer or rent (its history entry) only if the chain store holds the block
\* recording it; for create the order is the reverse: the chain store holds a
\* create_property block only if the property store holds the record.
C4_MinedBeforeApplied ==
    /\ \A p \in DOMAIN props_file :
          \A k \in 1..Len(props_file[p].history) :
             LET e == props_file[p].history[k]
             IN  e.type \in {"transfer", "rent"} => Records(e.block_index, p, e)
    /\ \A i \in 1..Len(chain_file) :
          chain_file[i].transactions[1].type = "create_property"
             => chain_file[i].transactions[1].property_id \in DOMAIN props_file

\* a process killed inside a transfer: the block is stored, the record is as before
C4_Witness ==
    /\ call.via = "crash"
    /\ call.op = "transfer"
    /\ last_block(chain_file).transactions[1].type = "transfer"
    /\ props_file[call.pid].owner = call.actor
    /\ \E k \in 1..Len(props_file[call.pid].history) :
          props_file[call.pid].history[k].type = "rent"

(* C5 *)

\* C5: a successful transfer_property(property_id, to) appends exactly one
\* block, sets owner to `to` and rented_to to None, appends one "transfer"
\* history entry whose from is the previous owner and whose block_index is the
\* new block's index, and leaves every other property record unchanged.
C5_TransferEffect ==
    [][(call'.op = "transfer" /\ result'.ok) =>
        LET p == call'.pid
            before == properties[p]
            after == properties'[p]
        IN  /\ p \in DOMAIN properties
            /\ call'.arg # before.owner
            /\ Len(chain') = Len(chain) + 1
            /\ SubSeq(chain', 1, Len(chain)) = chain
            /\ after.owner = call'.arg
            /\ after.rented_to = None
            /\ Len(after.history) = Len(before.history) + 1
            /\ SubSeq(after.history, 1, Len(before.history)) = before.history
            /\ LET e == after.history[Len(after.history)]
               IN  /\ e.type = "transfer"
                   /\ e.from = before.owner
                   /\ e.to = call'.arg
                   /\ e.block_index = last_block(chain').index
                   /\ e.block_index = result'.index
            /\ DOMAIN properties' = DOMAIN properties
            /\ \A q \in DOMAIN properties \ {p} : properties'[q] = properties[q]
       ]_vars

\* a rented property has been transferred
C5_Witness ==
    /\ call.op = "transfer"
    /\ result.ok
    /\ properties[call.pid].rented_to = None
    /\ \E k \in 1..Len(properties[call.pid].history) :
          properties[call.pid].history[k].type = "rent"

(* C6 *)

\* C6: transfer_property with the new owner equal to the current owner returns
\* a failure and leaves the chain, the property records and both stores
\* unchanged.
C6_NoOpTransferRejected ==
    [][(/\ call'.op = "transfer"
        /\ call'.pid \in DOMAIN properties
        /\ call'.arg = properties[call'.pid].owner) =>
          /\ ~result'.ok
          /\ result'.msg = "Cannot transfer to same owner"
          /\ UNCHANGED <<chain, chain_file, properties, props_file>>]_vars

C6_Witness ==
    /\ call.op = "transfer"
    /\ call.pid \in DOMAIN properties
    /\ call.arg = properties[call.pid].owner
    /\ ~result.ok
    /\ Len(chain) >= 3

(* C7 *)

\* C7: rent_property with the renter equal to the current owner returns a
\* failure and leaves the chain and the property record unchanged.
C7_SelfRentalRejected ==
    [][(/\ call'.op = "rent"
        /\ call'.pid \in DOMAIN properties
        /\ call'.arg = properties[call'.pid].owner) =>
          /\ ~result'.ok
          /\ result'.msg = "Owner cannot rent to themselves"
          /\ UNCHANGED <<chain, chain_file, properties, props_file>>]_vars

C7_Witness ==
    /\ call.op = "rent"
    /\ call.pid \in DOMAIN properties
    /\ call.arg = properties[call.pid].owner
    /\ result.msg = "Owner cannot rent to themselves"

(* C8 *)

\* C8: transfer_property and rent_property with an id that is not in the
\* registry return a failure; every failure they return leaves the chain, the
\* property records, the accounts and the three stores unchanged.
C8_ErrorsChangeNothing ==
    [][call'.op \in {"transfer", "rent"} =>
        /\ call'.pid \notin DOMAIN properties =>
              ~result'.ok /\ result'.msg = "Property not found"
        /\ ~result'.ok => UNCHANGED World]_vars

C8_Witness ==
    /\ call.op \in {"transfer", "rent"}
    /\ call.pid \notin DOMAIN properties
    /\ result.msg = "Property not found"
    /\ properties # << >>

(* C9 *)

\* C9: a successful rent_property(property_id, renter) appends exactly one
\* block, sets rented_to to renter, leaves owner unchanged and appends one
\* "rent" history entry with the new block's index; in every step a property's
\* owner changes only if the step is a successful transfer of that property.
C9_RentEffectOwnerFrame ==
    [][/\ (call'.op = "rent" /\ result'.ok) =>
            LET p == call'.pid
                before == properties[p]
                after == properties'[p]
            IN  /\ p \in DOMAIN properties
                /\ call'.arg # before.owner
                /\ Len(chain') = Len(chain) + 1
                /\ after.rented_to = call'.arg
                /\ after.owner = before.owner
                /\ after.history = Append(before.history, after.history[Len(after.history)])
                /\ LET e == after.history[Len(after.history)]
                   IN  /\ e.type = "rent"
                       /\ e.block_index = last_block(chain').index
       /\ \A p \in DOMAIN properties :
            /\ p \in DOMAIN properties'
            /\ properties'[p].owner # properties[p].owner
                 => call'.op = "transfer" /\ call'.pid = p /\ result'.ok
      ]_vars

C9_Witness ==
    /\ call.op = "rent"
    /\ result.ok
    /\ properties[call.pid].rented_to = call.arg
    /\ properties[call.pid].owner # call.arg
    /\ Len(properties[call.pid].history) >= 3

(* C10 *)

\* C10: when the Transfer Ownership or Give on Rent handler runs with an
\* active user who is not the selected property's owner, transfer_property /
\* rent_property is not called: the handler reports its own error, no block is
\* added and nothing changes; every block a handler adds names the active user
\* as from (transfer) or owner (rent).
C10_OnlyOwnerActs ==
    [][(call'.via = "ui" /\ call'.op \in {"transfer", "rent"}) =>
        /\ call'.actor # properties[call'.pid].owner =>
              /\ ~result'.ok
              /\ result'.msg \in {"Only the owner can transfer ownership.",
                                   "Only the owner can rent out this property."}
              /\ UNCHANGED World
        /\ Len(chain') # Len(chain) =>
              /\ NewTx.type = call'.op
              /\ call'.op = "transfer" => NewTx.from = call'.actor
              /\ call'.op = "rent" => NewTx.owner = call'.actor]_vars

C10_Witness ==
    /\ call.via = "ui"
    /\ call.op = "transfer"
    /\ call.actor # properties[call.pid].owner
    /\ result.msg = "Only the owner can transfer ownership."

(* C11 *)

\* C11: in every state the block at position i has index i and the first
\* block's previous_hash is the all-zero sentinel; every step that changes the
\* chain appends exactly one block and leaves every earlier block (index,
\* previous_hash, timestamp, transactions, nonce) as it was.
C11_ChainStructure ==
    /\ [](/\ \A i \in 1..Len(chain) : chain[i].index = i - 1
          /\ Len(chain) >= 1
          /\ chain[1].previous_hash = ZeroHash)
    /\ [][chain' # chain =>
            /\ Len(chain') = Len(chain) + 1
            /\ \A i \in 1..Len(chain) : chain'[i] = chain[i]]_vars

C11_Witness ==
    /\ call.op = "rent"
    /\ result.ok
    /\ Len(chain) = 4
    /\ last_block(chain).index = 3
    /\ chain[2].transactions[1].type = "create_property"

(* C12 *)

\* C12: in every step (a create, a transfer or a rent, accepted or rejected)
\* every property stays in the registry and its history before the step is a
\* prefix of its history after the step, in memory and in the property store.
C12_HistoryAppendOnly ==
    [][/\ \A p \in DOMAIN properties :
            /\ p \in DOMAIN properties'
            /\ Len(properties'[p].history) >= Len(properties[p].history)
            /\ SubSeq(properties'[p].history, 1, Len(properties[p].history))
                  = properties[p].history
       /\ \A p \in DOMAIN props_file :
            /\ p \in DOMAIN props_file'
            /\ Len(props_file'[p].history) >= Len(props_file[p].history)
            /\ SubSeq(props_file'[p].history, 1, Len(props_file[p].history))
                  = props_file[p].history]_vars

\* a property created, rented and then transferred: three entries in order
C12_Witness ==
    /\ call.op = "transfer"
    /\ result.ok
    /\ LET h == properties[call.pid].history
       IN  /\ Len(h) = 3
           /\ h[1].type = "created"
           /\ h[2].type = "rent"
           /\ h[3].type = "transfer"

(* C13 *)

\* C13: on an empty chain (loaded from a chain store holding an empty array)
\* last_block() fails with the empty-chain error, Python's IndexError, and
\* add_block fails the same way: no block is appended and the chain store is
\* not written.  On a chain with blocks both succeed.
C13_EmptyChainFails ==
    [][call'.op \in {"last_block", "add_block"} =>
         IF chain = << >>
         THEN /\ ~result'.ok
              /\ result'.msg = IndexError
              /\ UNCHANGED World
         ELSE /\ result'.ok
              /\ result'.index = last_block(chain').index
              /\ call'.op = "last_block" => UNCHANGED World
              /\ call'.op = "add_block" => Len(chain') = Len(chain) + 1]_vars

\* add_block has raised on the chain loaded from an emptied store
C13_Witness ==
    /\ call.op = "add_block"
    /\ result.msg = IndexError
    /\ chain = << >>
    /\ chain_file = << >>
    /\ properties # << >>

---------------------------------------------------------------------------
\* the dashboard with its "Add New User" form: the one operation that changes
\* the account store
NextAccounts ==
    \/ \E id \in NewUserIds, name \in NewUserNames : CreateUser(id, name)
    \/ \E u \in DOMAIN accounts, t \in Titles, d \in Descriptions :
          CreatePropertyForm(u, t, d)
    \/ \E u \in DOMAIN accounts, pid \in PropIds, o \in DOMAIN accounts :
          TransferOwnership(u, pid, o)
    \/ \E u \in DOMAIN accounts, pid \in PropIds, r \in DOMAIN accounts :
          GiveOnRent(u, pid, r)
    \/ Return

SpecAccounts == Init /\ [][NextAccounts]_vars

(* C14 *)

\* C14: the Create User handler with an id that is already in the accounts
\* reports an error and leaves the accounts and the account store unchanged
\* (the existing name stays); with a new id it adds exactly the entry
\* {id, name}, saves it and changes no existing entry.
C14_CreateUserRejectsExistingId ==
    [][call'.op = "create_user" =>
         IF call'.arg \in DOMAIN accounts
         THEN /\ ~result'.ok
              /\ result'.msg = "User ID already exists."
              /\ UNCHANGED World
         ELSE /\ result'.ok
              /\ DOMAIN accounts' = DOMAIN accounts \cup {call'.arg}
              /\ accounts'[call'.arg].id = call'.arg
              /\ accounts'[call'.arg].name \in NewUserNames
              /\ \A u \in DOMAIN accounts : accounts'[u] = accounts[u]
              /\ accounts_file' = accounts'
              /\ UNCHANGED <<chain, chain_file, properties, props_file>>]_vars

\* an existing demo id is refused after another user has been added
C14_Witness ==
    /\ call.op = "create_user"
    /\ call.arg = "alice"
    /\ ~result.ok
    /\ accounts["alice"].name = "Alice Demo"
    /\ "dave" \in DOMAIN accounts

(* C15 *)

\* C15: is_chain_valid() returns true exactly when every block after the first
\* has previous_hash equal to the digest of the block before it and a digest
\* with the difficulty prefix; for a chain of 0 or 1 blocks it returns true
\* whatever the first block holds.
C15_ValidIffLinkedAndMined ==
    call.op = "is_chain_valid" =>
        /\ result.ok <=>
              \A i \in 1..(Len(chain) - 1) :
                 /\ chain[i + 1].previous_hash = Block_hash(chain[i])
                 /\ MeetsDifficulty(chain[i + 1])
        /\ Len(chain) <= 1 => result.ok

\* a single block with a wrong sentinel and no proof of work is found valid
C15_Witness ==
    /\ call.op = "is_chain_valid"
    /\ Len(chain) = 1
    /\ chain[1].previous_hash # ZeroHash
    /\ ~MeetsDifficulty(chain[1])
    /\ result.ok

(* C16 *)

\* index equals position, and the links and proofs of work hold
Intact(ch) ==
    /\ \A i \in 1..Len(ch) : ch[i].index = i - 1
    /\ is_chain_valid(ch)

\* C16: (a) while every add_block call has run alone on the one object, both
\* objects and the chain store have index equal to position and are valid, and
\* the store holds every block add_block has returned; (b) an append on a chain
\* that has grown since the call read its length puts the block at a position
\* that is not its index, linked to the block that was last when it was read,
\* and the chain is no longer valid (unless that block and the block now
\* before it have the same digest); (c) a save from an object that
\* lacks a block of the chain store removes that block from the store.
C16_UnserialisedWritersRace ==
    /\ [](serial =>
            /\ Intact(chain)
            /\ Intact(chain_b)
            /\ Intact(load(chain_file))
            /\ \A b \in appended :
                  \E i \in 1..Len(chain_file) : chain_file[i] = to_dict(b))
    /\ [][\A w \in Writers :
            /\ (/\ writers[w].pc = "mined"
                /\ writers'[w].pc = "appended"
                /\ Len(Object(writers[w].obj)) # writers[w].block.index) =>
                  LET before == Object(writers[w].obj)
                      after == IF writers[w].obj = "a" THEN chain' ELSE chain_b'
                      blk == writers[w].block
                  IN  /\ after = Append(before, blk)
                      /\ last_block(after).index # Len(after) - 1
                      /\ blk.previous_hash = Block_hash(before[blk.index])
                      /\ \/ ~is_chain_valid(after)
                         \/ Block_hash(before[blk.index])
                               = Block_hash(last_block(before))
            /\ (writers[w].pc = "appended" /\ writers'[w].pc = "idle") =>
                  LET obj == to_json(Object(writers[w].obj))
                  IN  \A i \in 1..Len(chain_file) :
                         (\A j \in 1..Len(obj) : obj[j] # chain_file[i]) =>
                            \A k \in 1..Len(chain_file') :
                               chain_file'[k] # chain_file[i]]_vars

\* both outcomes in one state: the first object holds two blocks with one index
\* and previous_hash, and the store has lost a block that add_block returned
C16_Witness ==
    /\ \A w \in Writers : writers[w].pc = "idle"
    /\ \E i, j \in 1..Len(chain) :
          /\ i < j
          /\ chain[i].index = chain[j].index
          /\ chain[i].previous_hash = chain[j].previous_hash
    /\ ~is_chain_valid(chain)
    /\ Intact(chain_b)
    /\ chain_file = to_json(chain_b)
    /\ \E b \in appended :
          \A i \in 1..Len(chain_file) : chain_file[i] # to_dict(b)

(* C17 *)

\* C17: proof_of_work returns the candidate with its nonce set to the smallest
\* n >= 0 for which the digest of (index, previous_hash, timestamp,
\* transactions, n) has `difficulty` leading zero characters; no other field
\* differs; at difficulty 0 the nonce is 0.
C17_SmallestAcceptingNonce ==
    call.op = "proof_of_work" =>
        LET block == call.arg.block
            difficulty == call.arg.difficulty
            mined == result.block
            accepts(n) ==
                startswith_zeros(Block_hash([block EXCEPT !.nonce = n]), difficulty)
        IN  /\ block.nonce = 0
            /\ mined = [block EXCEPT !.nonce = mined.nonce]
            /\ mined.nonce >= 0
            /\ accepts(mined.nonce)
            /\ \A n \in 0..(mined.nonce - 1) : ~accepts(n)
            /\ difficulty = 0 => mined.nonce = 0

\* a search at the application's difficulty that took several steps
C17_Witness ==
    /\ call.op = "proof_of_work"
    /\ call.arg.difficulty = Difficulty
    /\ call.arg.block.index >= 2
    /\ result.block.nonce >= 3
    /\ MeetsDifficulty(result.block)

(* C18 *)

\* C18: a transfer or rent that has passed its checks and entered the mining
\* loop, for a candidate that some nonce makes acceptable, eventually returns
\* (True, block) with the mined block appended and the record changed; an
\* iteration of the loop either returns the block or goes on with the next
\* nonce: it has no bound, timeout or failure outcome.
C18_MiningEventuallySucceeds ==
    /\ (/\ writers[Handler].pc = "mining"
        /\ \E n \in 0..Pow(HexBase, Difficulty) :
              MeetsDifficulty([writers[Handler].block EXCEPT !.nonce = n]))
          ~> (/\ writers[Handler].pc = "idle"
              /\ call.via = "steps"
              /\ result.ok
              /\ result.index = last_block(chain).index
              /\ MeetsDifficulty(last_block(chain))
              /\ last_block(chain).transactions[1].type = call.op
              /\ last_block(chain).transactions[1].property_id = call.pid
              /\ call.op = "transfer" => properties[call.pid].owner = call.arg
              /\ call.op = "rent" => properties[call.pid].rented_to = call.arg
              /\ props_file = properties
              /\ chain_file = to_json(chain))
    /\ [][writers[Handler].pc = "mining" =>
            \/ /\ writers'[Handler].pc = "mining"
               /\ writers'[Handler].block =
                     [writers[Handler].block EXCEPT !.nonce = @ + 1]
               /\ ~MeetsDifficulty(writers[Handler].block)
            \/ /\ writers'[Handler].pc = "mined"
               /\ writers'[Handler].block = writers[Handler].block
               /\ MeetsDifficulty(writers[Handler].block)]_vars

\* a rent whose block took several iterations to mine has returned
C18_Witness ==
    /\ call.via = "steps"
    /\ call.op = "rent"
    /\ writers[Handler].pc = "idle"
    /\ result.ok
    /\ last_block(chain).nonce >= 3
    /\ properties[call.pid].rented_to = call.arg

(* C19 *)

\* the history entries that carry a block_index, as <<property id, position>>
Indexed ==
    {pk \in UNION {{<<p, k>> : k \in 1..Len(properties[p].history)} :
                      p \in DOMAIN properties} :
        "block_index" \in DOMAIN properties[pk[1]].history[pk[2]]}

\* C19: for every property p and every history entry e of p that carries a
\* block_index k: k is less than the chain length, the block at index k holds
\* exactly one transaction, of e's type, for p's id, with e's parties (from/to
\* or owner/renter); no two history entries of any properties carry the same
\* block_index.
C19_HistoryLinkedToChain ==
    /\ \A pk \in Indexed :
          LET p == pk[1]
              e == properties[p].history[pk[2]]
              k == e.block_index
          IN  /\ k >= 0
              /\ k < Len(chain)
              /\ chain[k + 1].index = k
              /\ Len(chain[k + 1].transactions) = 1
              /\ LET tx == chain[k + 1].transactions[1]
                 IN  /\ tx.type = e.type
                     /\ tx.property_id = properties[p].id
                     /\ properties[p].id = p
                     /\ e.type \in {"transfer", "rent"}
                     /\ e.type = "transfer" => tx.from = e.from /\ tx.to = e.to
                     /\ e.type = "rent" =>
                            tx.owner = e.owner /\ tx.renter = e.renter
    /\ \A pk, qj \in Indexed :
          pk # qj =>
             properties[pk[1]].history[pk[2]].block_index
               # properties[qj[1]].history[qj[2]].block_index

\* two properties, each with a recorded transfer or rent
C19_Witness ==
    /\ call.op \in {"transfer", "rent"}
    /\ result.ok
    /\ \E pk, qj \in Indexed :
          /\ pk[1] # qj[1]
          /\ properties[pk[1]].history[pk[2]].type = "transfer"
          /\ properties[qj[1]].history[qj[2]].type = "rent"

(* C20 *)

\* C20: rent_property on a property that is rented already (by its owner, to
\* someone other than the owner) succeeds and replaces rented_to with the new
\* renter; a rented_to that is not None becomes None only in a successful
\* transfer of that property; rented_to never equals owner.
C20_RentalLifetime ==
    /\ [](\A p \in DOMAIN properties :
             properties[p].rented_to # properties[p].owner)
    /\ [][/\ (/\ call'.op = "rent"
              /\ call'.pid \in DOMAIN properties
              /\ properties[call'.pid].rented_to # None
              /\ call'.arg # properties[call'.pid].owner
              /\ (call'.via = "ui" =>
                    call'.actor = properties[call'.pid].owner)) =>
                 /\ result'.ok
                 /\ properties'[call'.pid].rented_to = call'.arg
                 /\ properties'[call'.pid].owner = properties[call'.pid].owner
          /\ \A p \in DOMAIN properties :
                (/\ properties[p].rented_to # None
                 /\ properties'[p].rented_to = None) =>
                    /\ call'.op = "transfer"
                    /\ call'.pid = p
                    /\ result'.ok]_vars

\* a rented property has been rented again, to someone else
C20_Witness ==
    /\ call.op = "rent"
    /\ result.ok
    /\ LET h == properties[call.pid].history
       IN  /\ Len(h) = 3
           /\ h[2].type = "rent"
           /\ h[3].type = "rent"
           /\ h[2].renter # h[3].renter
           /\ properties[call.pid].rented_to = h[3].renter

====
